---------------------------- MODULE Spec2Model ----------------------------
(***************************************************************************)
(* A model of scrape_repo.js (the repository scraper of ai-coder-helper):  *)
(* the ignore rule set, the metadata collector, the catalog walk, the      *)
(* catalog write and the mirror walk of runAiCoderHelper.                  *)
(*                                                                         *)
(* Paths are real strings.  TLC evaluates Len, \o and SubSeq on strings,   *)
(* so path.join, path.relative, path.basename and String.split are         *)
(* computed character by character, as Node computes them.                 *)
(***************************************************************************)
EXTENDS Naturals, Sequences, FiniteSets, TLC

(***************************************************************************)
(* Strings and the functions of Node's path module (POSIX flavour).        *)
(***************************************************************************)
CharAt(s, i) == SubSeq(s, i, i)

StartsWith(s, p) == Len(s) >= Len(p) /\ SubSeq(s, 1, Len(p)) = p

EndsWith(s, p) == Len(s) >= Len(p) /\ SubSeq(s, Len(s) - Len(p) + 1, Len(s)) = p

RECURSIVE SplitFrom(_, _, _, _)
\* The pieces of s from position start on, i scanning for the next separator.
SplitFrom(s, sep, start, i) ==
    IF i > Len(s) THEN << SubSeq(s, start, Len(s)) >>
    ELSE IF CharAt(s, i) = sep
         THEN << SubSeq(s, start, i - 1) >> \o SplitFrom(s, sep, i + 1, i + 1)
         ELSE SplitFrom(s, sep, start, i + 1)

\* String.prototype.split(sep) for a one-character separator.
Split(s, sep) == SplitFrom(s, sep, 1, 1)

RECURSIVE JoinWith(_, _)
\* Array.prototype.join(sep).
JoinWith(parts, sep) ==
    IF Len(parts) = 0 THEN ""
    ELSE IF Len(parts) = 1 THEN parts[1]
    ELSE parts[1] \o sep \o JoinWith(Tail(parts), sep)

\* Array.prototype.slice(0, -1).
DropLast(parts) == SubSeq(parts, 1, Len(parts) - 1)

PathSep == "/"

RECURSIVE NormalizeParts(_, _, _)
\* The segment walk of path.normalize: empty and "." segments vanish, ".."
\* removes the segment before it (kept when nothing is left of a relative path).
NormalizeParts(parts, acc, isAbs) ==
    IF Len(parts) = 0 THEN acc
    ELSE LET h == Head(parts) IN
         IF h = "" \/ h = "." THEN NormalizeParts(Tail(parts), acc, isAbs)
         ELSE IF h = ".."
              THEN IF Len(acc) > 0 /\ acc[Len(acc)] # ".."
                   THEN NormalizeParts(Tail(parts), DropLast(acc), isAbs)
                   ELSE IF isAbs THEN NormalizeParts(Tail(parts), acc, isAbs)
                        ELSE NormalizeParts(Tail(parts), Append(acc, h), isAbs)
              ELSE NormalizeParts(Tail(parts), Append(acc, h), isAbs)

IsAbsolute(p) == StartsWith(p, PathSep)

\* The segments of a path after normalisation.
Segments(p) == NormalizeParts(Split(p, PathSep), << >>, IsAbsolute(p))

PathNormalize(p) ==
    LET body == JoinWith(Segments(p), PathSep) IN
    IF IsAbsolute(p) THEN PathSep \o body
    ELSE IF body = "" THEN "." ELSE body

\* path.join(a, b)
PathJoin(a, b) == PathNormalize(a \o PathSep \o b)

\* path.resolve(base, p): p when absolute, else p under base.
PathResolve(base, p) == IF IsAbsolute(p) THEN PathNormalize(p) ELSE PathJoin(base, p)

\* path.basename(p)
PathBasename(p) ==
    LET segs == Segments(p) IN IF Len(segs) = 0 THEN "" ELSE segs[Len(segs)]

\* path.dirname(p)
PathDirname(p) ==
    LET segs == Segments(p) IN
    IF Len(segs) <= 1 THEN (IF IsAbsolute(p) THEN PathSep ELSE ".")
    ELSE (IF IsAbsolute(p) THEN PathSep ELSE "") \o JoinWith(DropLast(segs), PathSep)

RECURSIVE CommonLen(_, _)
CommonLen(a, b) ==
    IF Len(a) = 0 \/ Len(b) = 0 \/ Head(a) # Head(b) THEN 0
    ELSE 1 + CommonLen(Tail(a), Tail(b))

\* path.relative(from, to) for absolute arguments: one ".." for every segment
\* of from outside the common prefix, then the rest of to.
PathRelative(from, to) ==
    LET f == Segments(from)
        t == Segments(to)
        c == CommonLen(f, t)
    IN  JoinWith([i \in 1..(Len(f) - c) |-> ".."] \o SubSeq(t, c + 1, Len(t)), PathSep)


(***************************************************************************)
(* The ignore library (import ignore from 'ignore'), for the pattern       *)
(* shapes without wildcards: basename patterns, root-anchored patterns     *)
(* (a leading or an interior slash), directory-only patterns (a trailing   *)
(* slash) and negations.  The library never stats a path: a path names a   *)
(* directory for it only when the string ends with a slash.                *)
(***************************************************************************)
IsNegative(pattern) == StartsWith(pattern, "!")

PatternBody(pattern) == IF IsNegative(pattern) THEN Tail(pattern) ELSE pattern

\* A trailing slash: the pattern matches directories only.
IsDirOnly(pattern) == EndsWith(PatternBody(pattern), PathSep)

\* A slash at the beginning or in the middle: the pattern is relative to the root.
IsAnchored(pattern) ==
    LET body == PatternBody(pattern) IN
    \E i \in 1..(Len(body) - 1) : CharAt(body, i) = PathSep

NonEmpty(parts) == SelectSeq(parts, LAMBDA x : x # "")

\* rule.regex.test(path)
RuleMatches(pattern, path) ==
    LET segs  == NonEmpty(Split(PatternBody(pattern), PathSep))
        comps == NonEmpty(Split(path, PathSep))
    IN  /\ Len(segs) > 0 /\ Len(comps) > 0
        /\ IsDirOnly(pattern) => EndsWith(path, PathSep)
        /\ IF IsAnchored(pattern)
           THEN comps = segs
           ELSE comps[Len(comps)] = segs[1]

RECURSIVE TestOne(_, _, _)
\* Ignore._testOne: the rules in the order they were added; the last one that
\* matches decides, a negation un-ignoring.
TestOne(rules, path, ignored) ==
    IF Len(rules) = 0 THEN ignored
    ELSE TestOne(Tail(rules), path,
                 IF RuleMatches(Head(rules), path)
                 THEN ~IsNegative(Head(rules))
                 ELSE ignored)

RECURSIVE TestPath(_, _, _)
\* Ignore._t: a path under an ignored parent directory is ignored and cannot
\* be re-included; the parent is tested as a directory (with a slash appended).
TestPath(rules, path, slices) ==
    LET parents == DropLast(slices) IN
    IF Len(parents) = 0 THEN TestOne(rules, path, FALSE)
    ELSE IF TestPath(rules, JoinWith(parents, PathSep) \o PathSep, parents)
         THEN TRUE
         ELSE TestOne(rules, path, FALSE)

\* ig.ignores(path)
Ignores(rules, path) == TestPath(rules, path, Split(path, PathSep))

\* ig.add(lines): blank lines and comment lines add no rule.
AddPatterns(rules, lines) ==
    rules \o SelectSeq(lines, LAMBDA l : l # "" /\ ~StartsWith(l, "#"))

(***************************************************************************)
(* Constants of scrape_repo.js.                                            *)
(***************************************************************************)
scriptFileName == "scrape_repo.js"

metadataFileName == "repo_metadata.json"

BASE_OUTPUT_PATH == "/home/peter/chatbots/ai-coder-helper"

BuiltInPatterns ==
    << "mirror_repo", "node_modules", "public", scriptFileName, metadataFileName >>

\* A variant that adds the built-in exclusions before the file's patterns.
LoadGitignoreBuiltInsFirst(file) ==
    [thrown |-> FALSE,
     ig |-> IF file.state = "present"
            THEN AddPatterns(AddPatterns(<< >>, BuiltInPatterns), file.lines)
            ELSE AddPatterns(<< >>, BuiltInPatterns)]

\* A variant in which a file that cannot be read aborts the caller (the
\* behaviour of the older synchronous scripts).
LoadGitignoreThrowing(file) ==
    IF file.state = "present"
    THEN [thrown |-> FALSE,
          ig |-> AddPatterns(AddPatterns(<< >>, file.lines), BuiltInPatterns)]
    ELSE [thrown |-> TRUE, ig |-> << >>]

\* loadGitignore: the file's patterns when it can be read (any read error is
\* swallowed, ENOENT silently), then the built-in exclusions.  Never throws.
loadGitignore(file) ==
    [thrown |-> FALSE,
     ig |-> AddPatterns(IF file.state = "present"
                        THEN AddPatterns(<< >>, file.lines)
                        ELSE << >>,
                        BuiltInPatterns)]

(***************************************************************************)
(* The inputs of a run: the source tree, the ignore-pattern file, the      *)
(* working directory of the process and argv[2].                           *)
(***************************************************************************)
\* The most per-operation failures (stat, readdir, mkdir, read, write) the
\* environment injects into one run.
MaxFaults == 1

Root == "/u/proj"

\* The end-to-end scenario of the specification.
TreeHidden ==
    (Root :> "dir") @@
    ("/u/proj/README.md" :> "file") @@
    ("/u/proj/src" :> "dir") @@
    ("/u/proj/src/app.js" :> "file") @@
    ("/u/proj/src/.secret" :> "dir") @@
    ("/u/proj/src/.secret/key.pem" :> "file") @@
    ("/u/proj/.git" :> "dir") @@
    ("/u/proj/.git/config" :> "file")

\* Names that the pattern shapes tell apart.
TreeShapes ==
    (Root :> "dir") @@
    ("/u/proj/name" :> "file") @@
    ("/u/proj/src" :> "dir") @@
    ("/u/proj/src/name" :> "file") @@
    ("/u/proj/src/gen" :> "dir") @@
    ("/u/proj/src/gen/o.js" :> "file") @@
    ("/u/proj/node_modules" :> "dir") @@
    ("/u/proj/node_modules/m.js" :> "file")

\* Built-in names, a nested file, a root-level file and an entry that is
\* neither a regular file nor a directory.
TreeBuiltIns ==
    (Root :> "dir") @@
    ("/u/proj/d.txt" :> "file") @@
    ("/u/proj/a" :> "dir") @@
    ("/u/proj/a/b" :> "dir") @@
    ("/u/proj/a/b/c.txt" :> "file") @@
    ("/u/proj/a/pipe" :> "other") @@
    ("/u/proj/scrape_repo.js" :> "file") @@
    ("/u/proj/public" :> "dir") @@
    ("/u/proj/public/i.html" :> "file") @@
    ("/u/proj/mirror_repo" :> "dir") @@
    ("/u/proj/mirror_repo/d.txt" :> "file")

\* The order in which a directory listing returns the names of the trees.
ListingOrder ==
    << ".git", ".gitignore", ".secret", "README.md", "a", "app.js", "b", "c.txt",
       "config", "d.txt", "gen", "i.html", "key.pem", "m.js", "mirror_repo", "name",
       "node_modules", "o.js", "pipe", "public", "scrape_repo.js", "src" >>

ListedNames == {ListingOrder[i] : i \in 1..Len(ListingOrder)}

\* No source root at all.
NoTree == [p \in {} |-> "dir"]

Trees == {TreeHidden, TreeShapes, TreeBuiltIns}

\* The lines of the user's ignore-pattern file: the pattern shapes, negations
\* of built-in names, and negations of hidden directories.
ShapePatterns ==
    { << "name" >>, << "/name" >>, << "src/gen" >>, << "gen/" >>,
      << "name", "!src/name" >> }

NegatedBuiltIns == << "# keep", "!node_modules", "!public", "!mirror_repo" >>

NegatedHidden == << "!.git", "!.secret", "!src/.secret/key.pem" >>

PatternFiles == {<< >>} \cup ShapePatterns \cup {NegatedBuiltIns, NegatedHidden}

\* A pattern file goes with the tree that has the names it mentions.
PatternFilesFor(tree) ==
    {<< >>} \cup (IF tree = TreeShapes THEN ShapePatterns \cup {NegatedBuiltIns}
                  ELSE IF tree = TreeBuiltIns THEN {NegatedBuiltIns}
                  ELSE IF tree = TreeHidden THEN {NegatedHidden}
                  ELSE {})

\* process.cwd(): the source root itself, or its parent.
Cwds == {Root, "/u"}

GitignoreStates == {"absent", "unreadable", "present"}

\* What an earlier run over another state of the source left under the
\* mirror root: a file in a directory the source no longer has.
StaleCopy == [stale |-> TRUE]

PriorMirrorRoot == PathJoin(PathJoin(BASE_OUTPUT_PATH, PathBasename(Root)), "mirror_repo")

PriorMirrorFiles == (PathJoin(PriorMirrorRoot, "old/gone.js") :> StaleCopy)

PriorMirrorDirs ==
    {PathJoin(BASE_OUTPUT_PATH, PathBasename(Root)), PriorMirrorRoot,
     PathJoin(PriorMirrorRoot, "old")}

VARIABLES
    fs,                   \* the source tree: absolute path -> "dir" | "file" | "other"
    gitignoreFile,        \* [state, lines]: the ignore-pattern file at the root
    cwd,                  \* process.cwd()
    targetRepoPath,       \* process.argv[2]; "" when no argument was given
    pc,                   \* where runAiCoderHelper is
    exitCode,             \* the exit status of the process
    ig,                   \* runAiCoderHelper's rule set (used by the mirror walk)
    igCatalog,            \* collectCodebaseMetadata's rule set
    stack,                \* the frames of the recursive walk in progress
    allMetadata,          \* collectCodebaseMetadata's accumulator
    fileCount,            \* collectCodebaseMetadata's counter
    directoryFileCounts,  \* collectCodebaseMetadata's per-directory counters
    catalogFile,          \* the catalog artifact on disk (<< >>: none)
    catalogWrites,        \* how many times the artifact was written
    outDirs,              \* the directories created under BASE_OUTPUT_PATH
    mirrorFiles,          \* destination path -> what was written there
    errors,               \* console.error calls so far
    caught,               \* the operation whose exception line 308 caught ("": none)
    faults,               \* failures injected so far
    failed,               \* the operations that failed, and on what
    trail,                \* what each walk did with each child, in order
    loadPc,               \* where the upload script's loadDocuments is
    todo,                 \* the entries its loop has still to take
    documents,            \* loadDocuments' documents
    processedFiles,       \* loadDocuments' processedFiles
    skippedFiles          \* loadDocuments' skippedFiles

vars == << fs, gitignoreFile, cwd, targetRepoPath, pc, exitCode, ig, igCatalog,
           stack, allMetadata, fileCount, directoryFileCounts, catalogFile,
           catalogWrites, outDirs, mirrorFiles, errors, caught, faults, failed,
           trail, loadPc, todo, documents, processedFiles, skippedFiles >>

\* The state of the scraper and the state of the loader.
scraperVars == << fs, gitignoreFile, cwd, targetRepoPath, pc, exitCode, ig, igCatalog,
                  stack, allMetadata, fileCount, directoryFileCounts, catalogFile,
                  catalogWrites, outDirs, mirrorFiles, errors, caught, trail >>

loaderVars == << loadPc, todo, documents, processedFiles, skippedFiles >>

inputs == << fs, gitignoreFile, cwd, targetRepoPath >>

gitignorePath == PathJoin(targetRepoPath, ".gitignore")

repoName == PathBasename(targetRepoPath)

REPO_OUTPUT_PATH == PathJoin(BASE_OUTPUT_PATH, repoName)

MIRROR_REPO_PATH == PathJoin(REPO_OUTPUT_PATH, "mirror_repo")

METADATA_PATH == PathJoin(REPO_OUTPUT_PATH, metadataFileName)

NoFiles == [p \in {} |-> << >>]

Init ==
    /\ \E tree \in Trees \cup {NoTree}, st \in GitignoreStates, lines \in PatternFiles :
          /\ lines \in PatternFilesFor(tree)
          /\ st # "present" => lines = << >>
          /\ tree = NoTree => st = "absent"
          /\ cwd \in (IF tree = TreeBuiltIns /\ st = "absent" THEN Cwds ELSE {Root})
          /\ gitignoreFile = [state |-> st, lines |-> lines]
          \* an unreadable .gitignore is one that is a directory (EISDIR)
          /\ fs = IF st = "absent" THEN tree
                  ELSE tree @@ (PathJoin(Root, ".gitignore")
                                   :> (IF st = "present" THEN "file" ELSE "dir"))
          /\ targetRepoPath \in (IF tree = NoTree THEN {"", Root} ELSE {Root})
    /\ \A p \in DOMAIN fs \ {Root} : PathBasename(p) \in ListedNames
    /\ pc = "start"
    /\ exitCode = 0
    /\ ig = << >>
    /\ igCatalog = << >>
    /\ stack = << >>
    /\ allMetadata = << >>
    /\ fileCount = 0
    /\ directoryFileCounts = [d \in {} |-> 0]
    /\ catalogFile = << >>
    /\ catalogWrites = 0
    /\ \E prior \in BOOLEAN :
          /\ prior => (fs = TreeHidden /\ cwd = Root)
          /\ outDirs = IF prior THEN PriorMirrorDirs ELSE {}
          /\ mirrorFiles = IF prior THEN PriorMirrorFiles ELSE NoFiles
    /\ errors = 0
    /\ caught = ""
    /\ faults = 0
    /\ failed = {}
    /\ trail = << >>
    /\ loadPc = "idle"
    /\ todo = << >>
    /\ documents = << >>
    /\ processedFiles = 0
    /\ skippedFiles = 0

(***************************************************************************)
(* The filesystem as the walks see it.                                     *)
(***************************************************************************)
\* fs.promises.readdir(dir): the names of the entries directly under dir, in
\* the order the listing returns them.
readdir(dir) == SelectSeq(ListingOrder, LAMBDA n : PathJoin(dir, n) \in DOMAIN fs)

\* A failure may be injected while the budget lasts.
Outcomes(failures) == IF faults < MaxFaults THEN {"ok"} \cup failures ELSE {"ok"}

Spend(outcome) == IF outcome = "ok" THEN faults ELSE faults + 1

\* The operation that failed in this step, by the phase of the run, the
\* operation and the path it was applied to.
Fail(outcome, path) ==
    IF outcome = "ok" THEN failed
    ELSE failed \cup {[phase |-> pc, op |-> outcome, path |-> path]}

Top == stack[Len(stack)]

Advance(st) == [st EXCEPT ![Len(st)].files = Tail(@)]

Pop(st) == DropLast(st)

\* A variant in which the recursive call is not awaited: the caller goes on
\* with the next sibling and the call runs when its callers have returned.
CallNotAwaited(st, frame) == << frame >> \o Advance(st)

\* await of a recursive call: the callee's frame is on top until it returns,
\* and the caller resumes with the next sibling.
Call(st, frame) == Append(Advance(st), frame)

(***************************************************************************)
(* collectFileMetadata.  lastModified, fileSize and language are left out: *)
(* the tree carries no sizes or times.                                     *)
(***************************************************************************)
Undefined == [undefined |-> TRUE]

IsUndefined(m) == "undefined" \in DOMAIN m

\* A variant that records the base name as the path.
FileMetadataByName(filePath, name) ==
    [fileName  |-> PathBasename(filePath),
     filePath  |-> PathBasename(filePath),
     hierarchy |-> << >>,
     repoName  |-> name]

\* The record of a successful stat.
FileMetadata(filePath, name) ==
    [fileName  |-> PathBasename(filePath),
     filePath  |-> PathRelative(cwd, filePath),
     hierarchy |-> DropLast(Split(PathRelative(cwd, filePath), PathSep)),
     repoName  |-> name]

\* A failed stat is logged and swallowed: the function returns undefined.
collectFileMetadata(filePath, name, statOk) ==
    IF statOk THEN FileMetadata(filePath, name) ELSE Undefined

(***************************************************************************)
(* runAiCoderHelper, lines 269-279: the argument and the source root.      *)
(***************************************************************************)
CheckTarget ==
    /\ pc = "start"
    /\ UNCHANGED << trail, loaderVars >>
    /\ IF targetRepoPath = "" \/ targetRepoPath \notin DOMAIN fs
       THEN /\ exitCode' = 1               \* process.exit(1)
            /\ pc' = "exited"
            /\ errors' = errors + 1
       ELSE /\ pc' = "setup"
            /\ UNCHANGED << exitCode, errors >>
    /\ UNCHANGED << inputs, ig, igCatalog, stack, allMetadata, fileCount,
                    directoryFileCounts, catalogFile, catalogWrites, outDirs,
                    mirrorFiles, caught, faults,
                    failed >>

\* p is dir or lies under it.
IsUnder(dir, p) == p = dir \/ StartsWith(p, dir \o PathSep)

\* Lines 292-298: fs.promises.rm of an existing mirror directory, everything
\* under it included; when the directory does not exist, or when rm throws,
\* the output location stays as it is.
RemoveMirror(mirrorPath, rmOk) ==
    IF mirrorPath \in outDirs /\ rmOk
    THEN [dirs  |-> {d \in outDirs : ~IsUnder(mirrorPath, d)},
          files |-> [q \in {f \in DOMAIN mirrorFiles : ~IsUnder(mirrorPath, f)} |->
                        mirrorFiles[q]]]
    ELSE [dirs |-> outDirs, files |-> mirrorFiles]

(***************************************************************************)
(* runAiCoderHelper, lines 281-300: the output directory, the rule set and *)
(* the mirror root.  An exception is caught at line 308: it is logged and  *)
(* the function returns.                                                   *)
(***************************************************************************)
Setup ==
    /\ pc = "setup"
    /\ UNCHANGED << trail, loaderVars >>
    /\ \E outcome \in Outcomes({"mkdirOutput", "mkdirMirror"}
                               \cup (IF MIRROR_REPO_PATH \in outDirs THEN {"rm"} ELSE {})) :
          LET loaded  == loadGitignore(gitignoreFile)
              removed == RemoveMirror(MIRROR_REPO_PATH, outcome # "rm")
          IN
          /\ faults' = Spend(outcome)
          /\ failed' = Fail(outcome, IF outcome = "rm" THEN MIRROR_REPO_PATH
                                  ELSE IF outcome = "mkdirMirror" THEN MIRROR_REPO_PATH
                                  ELSE REPO_OUTPUT_PATH)
          /\ IF outcome = "mkdirOutput"
             THEN /\ pc' = "done"
                  /\ caught' = "mkdirOutput"
                  /\ errors' = errors + 1
                  /\ UNCHANGED << ig, outDirs, mirrorFiles >>
             ELSE IF loaded.thrown
             THEN /\ pc' = "done"
                  /\ caught' = "loadGitignore"
                  /\ errors' = errors + 1
                  /\ outDirs' = outDirs \cup {REPO_OUTPUT_PATH}
                  /\ UNCHANGED << ig, mirrorFiles >>
             ELSE IF outcome = "mkdirMirror"
             THEN /\ pc' = "done"
                  /\ caught' = "mkdirMirror"
                  /\ errors' = errors + (IF gitignoreFile.state = "unreadable" THEN 2 ELSE 1)
                  /\ ig' = loaded.ig
                  /\ outDirs' = removed.dirs \cup {REPO_OUTPUT_PATH}
                  /\ mirrorFiles' = removed.files
             ELSE \* a failed rm is caught at line 296 and nothing is logged
                  /\ pc' = "collect"
                  /\ UNCHANGED caught
                  /\ errors' = errors + (IF gitignoreFile.state = "unreadable" THEN 1 ELSE 0)
                  /\ ig' = loaded.ig
                  /\ outDirs' = removed.dirs \cup {REPO_OUTPUT_PATH, MIRROR_REPO_PATH}
                  /\ mirrorFiles' = removed.files
    /\ UNCHANGED << inputs, exitCode, igCatalog, stack, allMetadata, fileCount,
                    directoryFileCounts, catalogFile, catalogWrites >>

(***************************************************************************)
(* collectCodebaseMetadata, lines 193-202 and 240: its own rule set, the   *)
(* empty accumulators, and the listing of the root.  A listing that fails  *)
(* is caught inside traverse (line 232).                                   *)
(***************************************************************************)
StartCollect ==
    /\ pc = "collect"
    /\ UNCHANGED << trail, loaderVars >>
    /\ \E outcome \in Outcomes({"readdir"}) :
          LET loaded == loadGitignore(gitignoreFile) IN
          /\ faults' = Spend(outcome)
          /\ failed' = Fail(outcome, targetRepoPath)
          /\ IF loaded.thrown
             THEN /\ pc' = "done"
                  /\ caught' = "loadGitignore"
                  /\ errors' = errors + 1
                  /\ UNCHANGED << igCatalog, stack >>
             ELSE /\ pc' = "traverse"
                  /\ UNCHANGED caught
                  /\ igCatalog' = loaded.ig
                  /\ errors' = errors
                                + (IF gitignoreFile.state = "unreadable" THEN 1 ELSE 0)
                                + (IF outcome = "ok" THEN 0 ELSE 1)
                  /\ stack' = IF outcome = "ok"
                              THEN << [currentPath |-> targetRepoPath, depth |-> 0,
                                       files |-> readdir(targetRepoPath)] >>
                              ELSE << >>
    /\ allMetadata' = << >>
    /\ fileCount' = 0
    /\ directoryFileCounts' = [d \in {} |-> 0]
    /\ UNCHANGED << inputs, exitCode, ig, catalogFile, catalogWrites, outDirs,
                    mirrorFiles >>

\* directoryFileCounts[directory] = (directoryFileCounts[directory] || 0) + 1
CountIn(counts, directory) ==
    [d \in DOMAIN counts \cup {directory} |->
        (IF d \in DOMAIN counts THEN counts[d] ELSE 0) + (IF d = directory THEN 1 ELSE 0)]

\* A variant that knows one hidden directory by name instead of testing the
\* first character.
OnlyGitIsHidden(kind, file) == kind = "dir" /\ file = ".git"

\* The hidden-directory test of both walks.
IsHiddenDirectory(kind, file) == kind = "dir" /\ StartsWith(file, ".")

\* The branch of the loop body that a child takes: the stat threw, the
\* child was skipped (continue), a directory was recursed into, a regular
\* file was processed, or neither branch of the if / else if applied.
ChildOutcome(outcome, skipped, kind) ==
    IF outcome = "stat" THEN "threw"
    ELSE IF skipped THEN "skipped"
    ELSE IF kind = "dir" THEN "recursed"
    ELSE IF kind = "file" THEN "file"
    ELSE "none"

\* The path the catalog walk hands to ig.ignores (line 206).
CatalogRelativePath(dirPath, fullPath) == PathRelative(dirPath, fullPath)

(***************************************************************************)
(* traverse, lines 204-231: one child of the directory being listed.       *)
(***************************************************************************)
TraverseStep ==
    /\ pc = "traverse"
    /\ UNCHANGED loaderVars
    /\ stack # << >>
    /\ Top.files # << >>
    /\ LET file         == Head(Top.files)
           fullPath     == PathJoin(Top.currentPath, file)
           relativePath == CatalogRelativePath(targetRepoPath, fullPath)
           kind         == fs[fullPath]
           skipped      == IsHiddenDirectory(kind, file) \/ Ignores(igCatalog, relativePath)
       IN  \E outcome \in Outcomes({"stat"}
                                   \cup (IF ~skipped /\ kind = "dir" THEN {"readdir"} ELSE {})
                                   \cup (IF ~skipped /\ kind = "file" THEN {"collect"} ELSE {})) :
             /\ faults' = Spend(outcome)
             /\ failed' = Fail(outcome, fullPath)
             /\ trail' = Append(trail, [phase |-> pc, dir |-> Top.currentPath,
                                        file |-> file, path |-> fullPath,
                                        outcome |-> ChildOutcome(outcome, skipped, kind)])
             /\ errors' = errors + (IF outcome = "ok" THEN 0 ELSE 1)
             /\ IF outcome = "stat"
                THEN \* line 207 throws: the catch of this traverse call ends it
                     /\ stack' = Pop(stack)
                     /\ UNCHANGED << allMetadata, fileCount, directoryFileCounts >>
                ELSE IF skipped \/ kind = "other"
                THEN /\ stack' = Advance(stack)
                     /\ UNCHANGED << allMetadata, fileCount, directoryFileCounts >>
                ELSE IF kind = "dir"
                THEN /\ stack' = IF outcome = "readdir"
                                 THEN Advance(stack)
                                 ELSE Call(stack,
                                           [currentPath |-> fullPath,
                                            depth |-> Top.depth + 1,
                                            files |-> readdir(fullPath)])
                     /\ UNCHANGED << allMetadata, fileCount, directoryFileCounts >>
                ELSE /\ allMetadata' = Append(allMetadata,
                                              collectFileMetadata(fullPath, repoName,
                                                                  outcome # "collect"))
                     /\ fileCount' = fileCount + 1
                     /\ directoryFileCounts' =
                            CountIn(directoryFileCounts,
                                    IF Top.depth = 0 THEN "root" ELSE PathDirname(relativePath))
                     /\ stack' = Advance(stack)
    /\ UNCHANGED << inputs, pc, exitCode, ig, igCatalog, catalogFile, catalogWrites,
                    outDirs, mirrorFiles, caught >>

\* traverse returns to the directory that called it.
TraverseReturn ==
    /\ pc = "traverse"
    /\ UNCHANGED << trail, loaderVars >>
    /\ stack # << >>
    /\ Top.files = << >>
    /\ stack' = Pop(stack)
    /\ UNCHANGED << inputs, pc, exitCode, ig, igCatalog, allMetadata, fileCount,
                    directoryFileCounts, catalogFile, catalogWrites, outDirs,
                    mirrorFiles, errors, caught, faults,
                    failed >>

(***************************************************************************)
(* runAiCoderHelper, lines 302-304: collectCodebaseMetadata has returned   *)
(* and the catalog is written, the whole file at once.  A write that fails *)
(* throws to the catch at line 308.                                        *)
(***************************************************************************)
Null == [null |-> TRUE]

IsNull(m) == "null" \in DOMAIN m

\* JSON.stringify writes an undefined array element as null.
JsonStringify(catalog) ==
    [repoName |-> catalog.repoName,
     metadata |-> [i \in 1..Len(catalog.metadata) |->
                      IF IsUndefined(catalog.metadata[i]) THEN Null
                      ELSE catalog.metadata[i]]]

\* A variant that saves through saveMetadataToFile (lines 253-265), whose
\* METADATA_PATH is not in scope: the ReferenceError is logged and swallowed,
\* nothing is written and the run goes on.
SaveCatalogSwallowed ==
    /\ pc = "traverse"
    /\ UNCHANGED << trail, loaderVars >>
    /\ stack = << >>
    /\ pc' = "mirrorStart"
    /\ errors' = errors + 1
    /\ UNCHANGED << inputs, exitCode, ig, igCatalog, stack, allMetadata, fileCount,
                    directoryFileCounts, catalogFile, catalogWrites, outDirs,
                    mirrorFiles, caught, faults,
                    failed >>

SaveCatalog ==
    /\ pc = "traverse"
    /\ UNCHANGED << trail, loaderVars >>
    /\ stack = << >>
    /\ \E outcome \in Outcomes({"write"}) :
          /\ faults' = Spend(outcome)
          /\ failed' = Fail(outcome, METADATA_PATH)
          /\ IF outcome = "ok"
             THEN /\ catalogFile' = << JsonStringify([repoName |-> repoName,
                                                      metadata |-> allMetadata]) >>
                  /\ catalogWrites' = catalogWrites + 1
                  /\ pc' = "mirrorStart"
                  /\ UNCHANGED << errors, caught >>
             ELSE /\ pc' = "done"
                  /\ caught' = "catalogWrite"
                  /\ errors' = errors + 1
                  /\ UNCHANGED << catalogFile, catalogWrites >>
    /\ UNCHANGED << inputs, exitCode, ig, igCatalog, stack, allMetadata, fileCount,
                    directoryFileCounts, outDirs, mirrorFiles >>

(***************************************************************************)
(* createMirrorDirectoryStructure, lines 149-153: the destination          *)
(* directory and the listing.  Every exception is caught by the call it    *)
(* happens in (line 185).                                                  *)
(***************************************************************************)
StartMirror ==
    /\ pc = "mirrorStart"
    /\ UNCHANGED << trail, loaderVars >>
    /\ \E outcome \in Outcomes({"mkdir", "readdir"}) :
          /\ faults' = Spend(outcome)
          /\ failed' = Fail(outcome, IF outcome = "mkdir" THEN MIRROR_REPO_PATH ELSE targetRepoPath)
          /\ errors' = errors + (IF outcome = "ok" THEN 0 ELSE 1)
          /\ outDirs' = IF outcome = "mkdir" THEN outDirs
                        ELSE outDirs \cup {MIRROR_REPO_PATH}
          /\ stack' = IF outcome = "ok"
                      THEN << [srcDir |-> targetRepoPath, destDir |-> MIRROR_REPO_PATH,
                               files |-> readdir(targetRepoPath)] >>
                      ELSE << >>
    /\ pc' = "mirror"
    /\ UNCHANGED << inputs, exitCode, ig, igCatalog, allMetadata, fileCount,
                    directoryFileCounts, catalogFile, catalogWrites, mirrorFiles,
                    caught >>

\* The header, the source text and the footer written to the destination.
AnnotatedCopy(srcFilePath, metadata) ==
    [header |-> metadata, content |-> srcFilePath, footer |-> metadata.filePath]

\* copyFileWithMetadataComments: a read or write failure, and the TypeError
\* of formatting an undefined metadata, are logged and swallowed.
copyFileWithMetadataComments(files, srcFilePath, destFilePath, metadata, ioOk) ==
    IF ioOk /\ ~IsUndefined(metadata)
    THEN [q \in DOMAIN files \cup {destFilePath} |->
             IF q = destFilePath THEN AnnotatedCopy(srcFilePath, metadata) ELSE files[q]]
    ELSE files

\* The path the mirror walk hands to ig.ignores (line 158).
MirrorRelativePath(srcDir, srcFilePath) == PathRelative(srcDir, srcFilePath)

(***************************************************************************)
(* createMirrorDirectoryStructure, lines 155-184: one child.               *)
(***************************************************************************)
MirrorStep ==
    /\ pc = "mirror"
    /\ UNCHANGED loaderVars
    /\ stack # << >>
    /\ Top.files # << >>
    /\ LET file         == Head(Top.files)
           srcFilePath  == PathJoin(Top.srcDir, file)
           destFilePath == PathJoin(Top.destDir, file)
           relativePath == MirrorRelativePath(Top.srcDir, srcFilePath)
           kind         == fs[srcFilePath]
           skipped      == IsHiddenDirectory(kind, file) \/ Ignores(ig, relativePath)
       IN  \E outcome \in Outcomes({"stat"}
                                   \cup (IF ~skipped /\ kind = "dir"
                                         THEN {"mkdir", "readdir"} ELSE {})
                                   \cup (IF ~skipped /\ kind = "file"
                                         THEN {"collect", "read", "write"} ELSE {})) :
             /\ faults' = Spend(outcome)
             /\ failed' = Fail(outcome, srcFilePath)
             /\ trail' = Append(trail, [phase |-> pc, dir |-> Top.srcDir,
                                        file |-> file, path |-> srcFilePath,
                                        outcome |-> ChildOutcome(outcome, skipped, kind)])
             /\ errors' = errors + (IF outcome = "ok" THEN 0
                                    ELSE IF outcome = "collect" THEN 2 ELSE 1)
             /\ IF outcome = "stat"
                THEN \* line 159 throws: the catch of this call ends it
                     /\ stack' = Pop(stack)
                     /\ UNCHANGED << outDirs, mirrorFiles >>
                ELSE IF skipped \/ kind = "other"
                THEN /\ stack' = Advance(stack)
                     /\ UNCHANGED << outDirs, mirrorFiles >>
                ELSE IF kind = "dir"
                THEN /\ outDirs' = IF outcome = "mkdir" THEN outDirs
                                   ELSE outDirs \cup {destFilePath}
                     /\ stack' = IF outcome = "ok"
                                 THEN Call(stack,
                                           [srcDir |-> srcFilePath,
                                            destDir |-> destFilePath,
                                            files |-> readdir(srcFilePath)])
                                 ELSE Advance(stack)
                     /\ UNCHANGED mirrorFiles
                ELSE /\ mirrorFiles' =
                            copyFileWithMetadataComments(
                                mirrorFiles, srcFilePath, destFilePath,
                                collectFileMetadata(srcFilePath, repoName,
                                                    outcome # "collect"),
                                outcome \notin {"read", "write"})
                     /\ stack' = Advance(stack)
                     /\ UNCHANGED outDirs
    /\ UNCHANGED << inputs, pc, exitCode, ig, igCatalog, allMetadata, fileCount,
                    directoryFileCounts, catalogFile, catalogWrites, caught >>

\* createMirrorDirectoryStructure returns to the directory that called it.
MirrorReturn ==
    /\ pc = "mirror"
    /\ UNCHANGED << trail, loaderVars >>
    /\ stack # << >>
    /\ Top.files = << >>
    /\ stack' = Pop(stack)
    /\ UNCHANGED << inputs, pc, exitCode, ig, igCatalog, allMetadata, fileCount,
                    directoryFileCounts, catalogFile, catalogWrites, outDirs,
                    mirrorFiles, errors, caught, faults,
                    failed >>

\* runAiCoderHelper, line 307: the mirror walk has returned.
Finish ==
    /\ pc = "mirror"
    /\ UNCHANGED << trail, loaderVars >>
    /\ stack = << >>
    /\ pc' = "done"
    /\ UNCHANGED << inputs, exitCode, ig, igCatalog, stack, allMetadata, fileCount,
                    directoryFileCounts, catalogFile, catalogWrites, outDirs,
                    mirrorFiles, errors, caught, faults,
                    failed >>

(***************************************************************************)
(* The upload script run on the output of the scraper (part_000):          *)
(* loadDocuments(targetFolder), lines 25-46.                               *)
(***************************************************************************)
LoadStart ==
    /\ pc = "done"
    /\ loadPc = "idle"
    /\ IF MIRROR_REPO_PATH \notin outDirs \/ catalogFile = << >>
       THEN /\ loadPc' = "threwMissing"          \* lines 33-38
            /\ UNCHANGED todo
       ELSE /\ loadPc' = "loop"
            /\ todo' = catalogFile[1].metadata   \* JSON.parse, line 41
    /\ UNCHANGED << documents, processedFiles, skippedFiles, scraperVars, faults,
                    failed >>

\* file.filePath.replace(/^\\//, ''), line 50.
StripLeadingSlash(filePath) ==
    IF StartsWith(filePath, "/") THEN SubSeq(filePath, 2, Len(filePath)) ELSE filePath

\* The path under the mirror that the loop computes for an entry (line 51).
MirrorFileOf(file) ==
    IF IsNull(file) THEN ""
    ELSE PathJoin(MIRROR_REPO_PATH, StripLeadingSlash(file.filePath))

\* fs.existsSync of a path under the mirror.
ExistsInMirror(filePath) == filePath \in DOMAIN mirrorFiles \/ filePath \in outDirs

\* The body of the loop, lines 49-86, for one entry of the catalog.  Line 50
\* is outside the try: the TypeError of reading filePath of null leaves
\* loadDocuments.  Inside the try a missing file is skipped, and a read that
\* throws (a directory, or a failure) is caught and the entry is skipped.
LoadEntry(file, readOk) ==
    IF IsNull(file) THEN [thrown |-> TRUE, skipped |-> FALSE]
    ELSE LET normalizedFilePath == StripLeadingSlash(file.filePath)
             filePath           == MirrorFileOf(file)
         IN  IF ~ExistsInMirror(filePath) THEN [thrown |-> FALSE, skipped |-> TRUE]
             ELSE IF filePath \notin DOMAIN mirrorFiles \/ ~readOk
             THEN [thrown |-> FALSE, skipped |-> TRUE]
             ELSE [thrown |-> FALSE, skipped |-> FALSE,
                   document |-> [pageContent |-> mirrorFiles[filePath],
                                 metadata |-> [fileName |-> file.fileName,
                                               filePath |-> normalizedFilePath,
                                               repoName |-> file.repoName,
                                               hierarchy |-> JoinWith(file.hierarchy, " > ")]]]

LoadStep ==
    /\ loadPc = "loop"
    /\ todo # << >>
    /\ \E outcome \in Outcomes(IF MirrorFileOf(Head(todo)) \in DOMAIN mirrorFiles
                               THEN {"read"} ELSE {}) :
          LET result == LoadEntry(Head(todo), outcome = "ok") IN
          /\ faults' = Spend(outcome)
          /\ failed' = Fail(outcome, MirrorFileOf(Head(todo)))
          /\ IF result.thrown
             THEN /\ loadPc' = "threwTypeError"
                  /\ UNCHANGED << todo, documents, processedFiles, skippedFiles >>
             ELSE /\ todo' = Tail(todo)
                  /\ UNCHANGED loadPc
                  /\ IF result.skipped
                     THEN /\ skippedFiles' = skippedFiles + 1
                          /\ UNCHANGED << documents, processedFiles >>
                     ELSE /\ documents' = Append(documents, result.document)
                          /\ processedFiles' = processedFiles + 1
                          /\ UNCHANGED skippedFiles
    /\ UNCHANGED scraperVars

\* Lines 89-100: the summary, and the error when nothing was prepared.
LoadEnd ==
    /\ loadPc = "loop"
    /\ todo = << >>
    /\ loadPc' = IF Len(documents) = 0 THEN "threwNoDocuments" ELSE "returned"
    /\ UNCHANGED << todo, documents, processedFiles, skippedFiles, scraperVars,
                    faults, failed >>

Next ==
    \/ CheckTarget
    \/ Setup
    \/ StartCollect
    \/ TraverseStep
    \/ TraverseReturn
    \/ SaveCatalog
    \/ StartMirror
    \/ MirrorStep
    \/ MirrorReturn
    \/ Finish
    \/ LoadStart
    \/ LoadStep
    \/ LoadEnd

Spec == Init /\ [][Next]_vars

\* The runs started with the source root as the working directory.
InitFromRoot == Init /\ cwd = Root

SpecFromRoot == InitFromRoot /\ [][Next]_vars

(***************************************************************************)
(* What the properties below speak about.                                  *)
(***************************************************************************)
\* The rule set the run compiles: the user's patterns, then the built-ins.
RuleSet == loadGitignore(gitignoreFile).ig

\* The path of a source entry relative to the source root.
RootRelative(p) == PathRelative(targetRepoPath, p)

\* p lies under a directory whose name begins with a dot.
UnderHiddenDirectory(p) ==
    LET segs == Split(RootRelative(p), PathSep) IN
    \E i \in 1..(Len(segs) - 1) : StartsWith(segs[i], ".")

\* p is a directory whose name begins with a dot, or lies under one.
HiddenOrUnderHidden(p) ==
    UnderHiddenDirectory(p) \/ (fs[p] = "dir" /\ StartsWith(PathBasename(p), "."))

\* Where the mirror of a source entry belongs.
MirrorPathOf(p) == PathJoin(MIRROR_REPO_PATH, RootRelative(p))

IsRecord(m) == "filePath" \in DOMAIN m

\* The elements of a metadata sequence that were made for the source file p
\* (filePath is computed against the working directory).
EntriesFor(metadata, p) ==
    {i \in 1..Len(metadata) :
        IsRecord(metadata[i]) /\ PathResolve(cwd, metadata[i].filePath) = p}

\* The ignore rules match the root-relative path of p.
MatchedByRules(p) ==
    \/ Ignores(RuleSet, RootRelative(p))
    \/ fs[p] = "dir" /\ Ignores(RuleSet, RootRelative(p) \o PathSep)

\* The run is over and no filesystem operation failed in it.
CleanRun ==
    pc = "done" /\ faults = 0 /\ caught = "" /\ gitignoreFile.state # "unreadable"

SourceEntries == DOMAIN fs \ {targetRepoPath}

\* C1: after a run without failures, every regular file that the rule set
\* (evaluated on root-relative paths) does not ignore and that has no hidden
\* ancestor is in the mirror at the same relative path and has exactly one
\* catalog entry.
C1_KeptFilesMirroredAndCataloged ==
    CleanRun =>
        \A p \in SourceEntries :
            (fs[p] = "file" /\ ~Ignores(RuleSet, RootRelative(p)) /\ ~UnderHiddenDirectory(p))
            => /\ MirrorPathOf(p) \in DOMAIN mirrorFiles
               /\ Cardinality(EntriesFor(catalogFile[1].metadata, p)) = 1

\* C2: after a run, nothing that the rule set matches on its root-relative
\* path, and nothing under a hidden directory, has an entry in the mirror
\* tree or in the catalog.
C2_IgnoredPathsAbsent ==
    pc = "done" =>
        \A p \in SourceEntries :
            (MatchedByRules(p) \/ UnderHiddenDirectory(p))
            => /\ MirrorPathOf(p) \notin DOMAIN mirrorFiles
               /\ MirrorPathOf(p) \notin outDirs
               /\ EntriesFor(allMetadata, p) = {}

\* C3: at the end of a run every element of the written catalog is a record
\* (none is null), and its filePath resolved under the mirror root names a
\* file the mirror walk wrote, a different one for each element.
C3_CatalogEntriesAreMirrored ==
    (pc = "done" /\ catalogFile # << >>) =>
        LET metadata == catalogFile[1].metadata IN
        /\ \A i \in 1..Len(metadata) :
              /\ IsRecord(metadata[i])
              /\ PathJoin(MIRROR_REPO_PATH, metadata[i].filePath) \in DOMAIN mirrorFiles
        /\ \A i, j \in 1..Len(metadata) :
              (i # j /\ IsRecord(metadata[i]) /\ IsRecord(metadata[j]))
              => metadata[i].filePath # metadata[j].filePath

\* C4: a file whose stat failed in collectFileMetadata gets no element in the
\* catalog and is not counted among the processed files.
C4_StatFailureOmitsFile ==
    /\ \A i \in 1..Len(allMetadata) : IsRecord(allMetadata[i])
    /\ fileCount = Cardinality({i \in 1..Len(allMetadata) : IsRecord(allMetadata[i])})

\* Every path below the root that a source tree of the inputs can hold.
TreePaths ==
    (UNION {DOMAIN tree : tree \in Trees} \ {Root}) \cup {PathJoin(Root, ".gitignore")}

\* Those whose own name begins with a dot, and those under a directory whose
\* name begins with a dot.
DotNamedPaths == {p \in TreePaths : StartsWith(PathBasename(p), ".")}
UnderHiddenPaths ==
    {p \in TreePaths :
        LET segs == Split(PathRelative(Root, p), PathSep) IN
        \E i \in 1..(Len(segs) - 1) : StartsWith(segs[i], ".")}
HiddenPaths == DotNamedPaths \cup UnderHiddenPaths

\* Where the mirror of each of them would be.
HiddenMirrorPath ==
    [p \in HiddenPaths |->
        PathJoin(PathJoin(PathJoin(BASE_OUTPUT_PATH, PathBasename(Root)), "mirror_repo"),
                 PathRelative(Root, p))]

\* The directory a frame of either walk is listing.
FrameDir(frame) ==
    IF "currentPath" \in DOMAIN frame THEN frame.currentPath ELSE frame.srcDir

C6_FilePathRelativeToRoot ==
    \A i \in 1..Len(allMetadata) :
        IsRecord(allMetadata[i])
        => \E p \in SourceEntries :
              /\ fs[p] = "file"
              /\ allMetadata[i].fileName = PathBasename(p)
              /\ allMetadata[i].filePath = RootRelative(p)

\* C7: in every record hierarchy is filePath split on the separator without
\* its last component and fileName is that last component; the record of the
\* file at root-relative path a/b/c.txt has hierarchy <<"a", "b">> and the
\* record of the root-level file d.txt has the empty hierarchy.
C7_HierarchyIsDirectoryPart ==
    /\ \A i \in 1..Len(allMetadata) :
          IsRecord(allMetadata[i])
          => LET parts == Split(allMetadata[i].filePath, PathSep) IN
             /\ allMetadata[i].hierarchy = DropLast(parts)
             /\ allMetadata[i].fileName = parts[Len(parts)]
    /\ \A i \in EntriesFor(allMetadata, PathJoin(targetRepoPath, "a/b/c.txt")) :
          allMetadata[i].hierarchy = << "a", "b" >>
    /\ \A i \in EntriesFor(allMetadata, PathJoin(targetRepoPath, "d.txt")) :
          allMetadata[i].hierarchy = << >>

\* C8 as claimed: once the catalog has been written, no mirror file is
\* written any more.
C8_NoMirrorWriteAfterCatalog ==
    [][catalogWrites > 0 => mirrorFiles' = mirrorFiles]_vars

\* C8 as amended: the catalog is written at most once, and exactly once in a
\* run that ends without a fatal failure; the write happens after the catalog
\* walk has returned and stores the whole accumulator; it happens before the
\* mirror walk starts, so the run has written no mirror file before it (the
\* mirror holds at most what an earlier run left).
C8_CatalogWrittenOnceBeforeMirror ==
    /\ catalogWrites <= 1
    /\ pc \in {"start", "setup", "collect", "exited"} \/ (pc = "traverse" /\ stack # << >>)
       => catalogWrites = 0 /\ catalogFile = << >>
    /\ pc \in {"mirrorStart", "mirror"} => catalogWrites = 1
    /\ pc = "done" => (catalogWrites = 1 <=> caught = "")
    /\ catalogWrites = 1
       => catalogFile = << JsonStringify([repoName |-> repoName, metadata |-> allMetadata]) >>
    /\ catalogWrites = 0 => \A f \in DOMAIN mirrorFiles : mirrorFiles[f] = StaleCopy

\* A run has ended with the catalog written once and files in the mirror.
C8_Witness ==
    pc = "done" /\ catalogWrites = 1 /\ mirrorFiles # NoFiles /\ Len(allMetadata) > 1

\* C9: a missing source root ends the process with a non-zero status before
\* anything is created, and a failed catalog write ends it with a non-zero
\* status and no mirror file.
C9_FatalFailuresExitNonZero ==
    /\ pc = "exited"
       => exitCode # 0 /\ outDirs = {} /\ mirrorFiles = NoFiles /\ catalogFile = << >>
    /\ caught = "catalogWrite" => exitCode # 0 /\ mirrorFiles = NoFiles

\* C10: when the ignore-pattern file does not exist, both rule sets are
\* exactly the built-in exclusions, nothing is thrown or logged for it, and a
\* run without failures writes the catalog and walks the mirror.
C10_AbsentIgnoreFileIsNotAnError ==
    gitignoreFile.state = "absent" =>
        /\ caught # "loadGitignore"
        /\ (pc \in {"collect", "traverse", "mirrorStart", "mirror"} \/ catalogWrites = 1)
           => ig = BuiltInPatterns
        /\ (pc \in {"traverse", "mirrorStart", "mirror"} \/ catalogWrites = 1)
           => igCatalog = BuiltInPatterns
        /\ (pc = "done" /\ faults = 0)
           => /\ errors = 0
              /\ catalogWrites = 1
              /\ MIRROR_REPO_PATH \in outDirs
              /\ \A p \in SourceEntries :
                    (fs[p] = "file" /\ ~Ignores(BuiltInPatterns, RootRelative(p))
                     /\ ~HiddenOrUnderHidden(p))
                    => MirrorPathOf(p) \in DOMAIN mirrorFiles

\* A run without an ignore-pattern file has ended with a catalog and a mirror.
C10_Witness ==
    /\ gitignoreFile.state = "absent"
    /\ pc = "done"
    /\ catalogWrites = 1
    /\ ig = BuiltInPatterns
    /\ mirrorFiles # NoFiles

\* C11: whatever the output location held before the run, and also when
\* deleting the existing mirror directory fails, the mirror root exists and
\* has nothing under it when the mirror walk starts, and after the run the
\* mirror holds no file that an earlier run left there.
C11_MirrorStartsEmpty ==
    /\ pc = "mirrorStart"
       => /\ MIRROR_REPO_PATH \in outDirs
          /\ mirrorFiles = NoFiles
          /\ \A d \in outDirs : IsUnder(MIRROR_REPO_PATH, d) => d = MIRROR_REPO_PATH
    /\ (pc = "done" /\ caught = "")
       => \A f \in DOMAIN mirrorFiles : mirrorFiles[f] # StaleCopy

\* No two records of a metadata sequence have the same filePath.
FilePathsDistinct(metadata) ==
    \A i, j \in 1..Len(metadata) :
        (i < j /\ IsRecord(metadata[i]) /\ IsRecord(metadata[j]))
        => metadata[i].filePath # metadata[j].filePath

\* C12: at every moment of a run, and in the catalog the run writes, each
\* filePath value belongs to at most one metadata element.
C12_FilePathsUnique ==
    /\ FilePathsDistinct(allMetadata)
    /\ catalogFile # << >> => FilePathsDistinct(catalogFile[1].metadata)

\* A catalog was written that holds two files of the same name in
\* different directories.
C12_Witness ==
    /\ catalogFile # << >>
    /\ LET metadata == catalogFile[1].metadata IN
       \E i, j \in 1..Len(metadata) :
           /\ i < j
           /\ IsRecord(metadata[i]) /\ IsRecord(metadata[j])
           /\ metadata[i].fileName = metadata[j].fileName

\* The operations of a walk on one child entry: the stat of the loop, the
\* stat inside collectFileMetadata, and the read and the write of the copy.
PerChildOps == {"stat", "collect", "read", "write"}

\* C13: when the only failures of a run are failures to stat, read or write
\* child entries during the walks, every file that is not skipped (by the
\* built-in rules, the user having given none) and that is neither a failed
\* entry nor under one is cataloged and mirrored at the end of the run.
C13_PerFileFailureIsolated ==
    (/\ pc = "done"
     /\ caught = ""
     /\ RuleSet = BuiltInPatterns
     /\ \A f \in failed : f.op \in PerChildOps /\ f.phase \in {"traverse", "mirror"})
    => \A p \in SourceEntries :
          (/\ fs[p] = "file"
           /\ ~Ignores(RuleSet, RootRelative(p))
           /\ ~UnderHiddenDirectory(p)
           /\ \A f \in failed : ~IsUnder(f.path, p))
          => /\ MirrorPathOf(p) \in DOMAIN mirrorFiles
             /\ EntriesFor(allMetadata, p) # {}

\* The steps a walk made for the child p.
RecordsOf(phase, p) ==
    {i \in 1..Len(trail) : trail[i].phase = phase /\ trail[i].path = p}

\* The walk listed the directory dir (no listing having failed).
Listed(phase, dir) ==
    \/ dir = targetRepoPath
    \/ \E i \in RecordsOf(phase, dir) : trail[i].outcome = "recursed"

\* The walk has returned.
WalkOver(phase) ==
    IF phase = "traverse" THEN pc \in {"mirrorStart", "mirror", "done"}
    ELSE pc = "done"

\* C14: in a run without failures, when a walk has returned, every child of
\* a directory the walk listed (regular file, directory or neither) was
\* processed exactly once, with one outcome among skipped, recursed-into
\* (directories only) and file-processed (regular files only), and no child
\* of a directory the walk did not list was processed at all.
C14_EveryChildOneOutcome ==
    failed = {} =>
        \A phase \in {"traverse", "mirror"} :
            WalkOver(phase) =>
                \A p \in SourceEntries :
                    LET recs == RecordsOf(phase, p) IN
                    IF Listed(phase, PathDirname(p))
                    THEN /\ Cardinality(recs) = 1
                         /\ \A i \in recs :
                               /\ trail[i].outcome \in {"skipped", "recursed", "file"}
                               /\ trail[i].outcome = "recursed" => fs[p] = "dir"
                               /\ trail[i].outcome = "file" => fs[p] = "file"
                    ELSE recs = {}

\* The position of a name in the order of the listing.
ListingIndex ==
    [n \in ListedNames |-> CHOOSE i \in 1..Len(ListingOrder) : ListingOrder[i] = n]

RECURSIVE DepthFirstFiles(_, _)
\* The regular files that the catalog rules keep among the children names of
\* dir and beneath them, depth first in the order of the listing.
DepthFirstFiles(dir, names) ==
    IF names = << >> THEN << >>
    ELSE LET child == PathJoin(dir, Head(names))
             here  == IF \/ IsHiddenDirectory(fs[child], Head(names))
                         \/ Ignores(RuleSet, RootRelative(child))
                      THEN << >>
                      ELSE IF fs[child] = "dir"
                      THEN DepthFirstFiles(child, readdir(child))
                      ELSE IF fs[child] = "file" THEN << child >>
                      ELSE << >>
         IN  here \o DepthFirstFiles(dir, Tail(names))

\* C15: in every state the calls in progress are nested, one directory in
\* its parent; in each walk whatever is done beneath a child is done in one
\* block right after the child, before any later sibling, and siblings are
\* taken in the order of the listing; and the records of the catalog of a
\* run without failures are in depth-first order of the listing.
C15_DepthFirstInListingOrder ==
    /\ \A k \in 1..Len(stack) :
          IF k = 1 THEN FrameDir(stack[k]) = targetRepoPath
          ELSE PathDirname(FrameDir(stack[k])) = FrameDir(stack[k-1])
    /\ \A i, j \in 1..Len(trail) :
          (i < j /\ trail[i].phase = trail[j].phase)
          => /\ IsUnder(trail[i].path, trail[j].path)
                => \A m \in i..j : IsUnder(trail[i].path, trail[m].path)
             /\ trail[i].dir = trail[j].dir
                => ListingIndex[trail[i].file] < ListingIndex[trail[j].file]
    /\ (pc = "mirrorStart" /\ failed = {})
       => [i \in 1..Len(allMetadata) |-> PathResolve(cwd, allMetadata[i].filePath)]
          = DepthFirstFiles(targetRepoPath, readdir(targetRepoPath))

\* The catalog walk of a run without failures has returned, and it cataloged
\* a file of a subdirectory before a file of the root that the listing
\* gives after that subdirectory.
C15_Witness ==
    /\ pc = "mirrorStart"
    /\ failed = {}
    /\ \E i, j \in 1..Len(trail) :
          /\ i + 1 < j
          /\ trail[i].outcome = "recursed"
          /\ trail[j].outcome = "file"
          /\ trail[j].dir = trail[i].dir
          /\ trail[j-1].outcome = "file"
          /\ IsUnder(trail[i].path, trail[j-1].path)

\* The names the built-in exclusions give.
BuiltInNames == {BuiltInPatterns[i] : i \in 1..Len(BuiltInPatterns)}

\* Relative paths whose name is a built-in: at the root, nested, and beneath
\* a directory that a negation of the user's file names.
BuiltInPaths ==
    UNION {{n, "src/" \o n, "a/b/" \o n, "node_modules/" \o n} : n \in BuiltInNames}

\* The rule sets loadGitignore compiles from the inputs, and those among them
\* that ignore every such path, as a file and as a directory.
CompiledRuleSets ==
    {loadGitignore([state |-> st, lines |-> lines]).ig :
        st \in GitignoreStates, lines \in PatternFiles}

RuleSetsKeepingBuiltIns ==
    {rules \in CompiledRuleSets :
        \A p \in BuiltInPaths : Ignores(rules, p) /\ Ignores(rules, p \o PathSep)}

\* The entries of the trees whose name is a built-in.
BuiltInEntries == {p \in TreePaths : PathBasename(p) \in BuiltInNames}

\* C16: whatever the user's pattern file holds (negations of the built-ins
\* included), every rule set the run compiles ignores every path whose name
\* is a built-in exclusion, as a file and as a directory, and no walk
\* recurses into or processes an entry of such a name, or anything beneath
\* one.
C16_BuiltInsNotReincluded ==
    /\ \A rules \in {RuleSet} \cup ({ig, igCatalog} \ {<< >>}) :
          rules \in RuleSetsKeepingBuiltIns
    /\ \A i \in 1..Len(trail) :
          /\ trail[i].file \in BuiltInNames => trail[i].outcome \in {"skipped", "threw"}
          /\ \A d \in BuiltInEntries : ~StartsWith(trail[i].path, d \o PathSep)

\* Under a pattern file that negates built-in names, both walks have met a
\* directory with such a name.
C16_Witness ==
    /\ pc = "done"
    /\ "!node_modules" \in {gitignoreFile.lines[i] : i \in 1..Len(gitignoreFile.lines)}
    /\ \E i, j \in 1..Len(trail) :
          /\ trail[i].phase = "traverse" /\ trail[j].phase = "mirror"
          /\ trail[i].file = "node_modules" /\ trail[j].file = "node_modules"
          /\ trail[i].outcome = "skipped" /\ trail[j].outcome = "skipped"

\* C17: for every catalog the scraper writes, the loop of loadDocuments
\* takes every entry, a null entry and an entry whose mirror file is missing
\* or unreadable included, and counts it as processed or as skipped: at each
\* turn and at the end the two counters and the entries left add up to the
\* number of entries, the documents are as many as the processed files, and
\* once the mirror and the catalog were found the load fails only for having
\* prepared no document.
C17_LoaderAccountsForEveryEntry ==
    /\ loadPc \in {"loop", "returned", "threwNoDocuments", "threwTypeError"}
       => /\ processedFiles + skippedFiles + Len(todo) = Len(catalogFile[1].metadata)
          /\ Len(documents) = processedFiles
    /\ loadPc \in {"returned", "threwNoDocuments"} => todo = << >>
    /\ loadPc = "returned" => Len(documents) > 0
    /\ loadPc = "threwNoDocuments" => Len(documents) = 0
    /\ loadPc # "threwTypeError"

=============================================================================
